---------------------------- MODULE Spec2Model ----------------------------
(***************************************************************************)
(* Model of the expense / budget command interpreter of Gullak-MCP         *)
(* (src/main.py): the per-user ledger store `expense_cache` (a cachetools  *)
(* TTLCache), the asyncio lock CACHE_LOCK, and the command handler         *)
(* expense_budget_monitor with its seven commands.                         *)
(*                                                                         *)
(* Conventions                                                             *)
(*  - A command string is modelled as the sequence of its whitespace       *)
(*    separated tokens (what str.split() yields); tokens are separated by  *)
(*    single blanks.  str.lower(), str.capitalize(), float() and the       *)
(*    regular expressions are modelled by tables over the vocabulary.      *)
(*  - Amounts are Python floats in the code; the model uses the small      *)
(*    integers these floats represent exactly.                             *)
(*  - A Python dict is a TLA+ function whose DOMAIN is the set of keys.    *)
(*  - Time is counted in days (the code's ttl is 60*60*24*7 seconds).      *)
(*  - The ISO timestamps stored with expenses and debts ("date",           *)
(*    "created_at") are never read by the code and are left out.           *)
(***************************************************************************)
EXTENDS Integers, Sequences, FiniteSets, TLC

VARIABLES
    expense_cache,  \* main.py:59  TTLCache: sequence of [key, value, expires], least recently used first
    locked,         \* main.py:60  CACHE_LOCK is held
    now,            \* the cache timer (time.monotonic), in days
    month,          \* datetime.utcnow().strftime("%B"): the current calendar month
    pc,             \* per handler task: "idle", "waiting" (at `async with`), "critical" (inside it)
    user,           \* per handler task: its user_id argument
    last,           \* history: user, timer value, calendar month and response of the command that completed last
    before,         \* history: the ledger that command got from get_user_state (main.py:242)
    recency,        \* history: the users in the order of their latest completed command, latest last
    tool            \* the latest call of a tool other than expense_budget_monitor, with its outcome

vars == <<expense_cache, locked, now, month, pc, user, last, before, recency, tool>>

---------------------------------------------------------------------------
(* Bounds of the model *)

MaxExpenses == 3    \* longest expenses list explored
MaxDebts == 2       \* longest debts_bills list explored
MaxClock == 8       \* last day explored

(* Program constants (scaled: maxsize is 1000 in the code) *)
maxsize == 2
ttl == 7

Tasks == {"t1", "t2"}
Users == {"u1", "u2", "u3"}

---------------------------------------------------------------------------
(* Text primitives, as tables over the vocabulary of the model *)

\* str.lower() of a token
Lower(tok) ==
    CASE tok = "March" -> "march"
      [] tok = "APRIL" -> "april"
      [] tok = "FOOD" -> "food"
      [] tok = "Travel" -> "travel"
      [] tok = "Raj" -> "raj"
      [] tok = "Electricity" -> "electricity"
      [] tok = "Spent" -> "spent"
      [] tok = "MARCH" -> "march"
      [] tok = "Food" -> "food"
      [] tok = "Mumbai" -> "mumbai"
      [] tok = "Navi Mumbai" -> "navi mumbai"
      [] tok = "Delhi" -> "delhi"
      [] tok = "Pune" -> "pune"
      [] tok = "SET" -> "set"
      [] OTHER -> tok

\* str.lower() of the command, token by token
LowerAll(command) == [i \in DOMAIN command |-> Lower(command[i])]

\* str.capitalize() of an already lower-cased token
Capitalize(tok) ==
    CASE tok = "march" -> "March"
      [] tok = "april" -> "April"
      [] tok = "food" -> "Food"
      [] tok = "travel" -> "Travel"
      [] tok = "abc" -> "Abc"
      [] tok = "raj" -> "Raj"
      [] tok = "mumbai" -> "Mumbai"
      [] tok = "delhi" -> "Delhi"
      [] OTHER -> tok

\* float(tok): Python raises ValueError for text that is no number
FloatOk(tok) == tok \in {"0", "1", "2", "3", "5", "-1"}
FloatVal(tok) ==
    CASE tok = "0" -> 0
      [] tok = "1" -> 1
      [] tok = "2" -> 2
      [] tok = "3" -> 3
      [] tok = "5" -> 5
      [] tok = "-1" -> -1

\* the regular expression (\d+\.?\d*) matching a whole token
IsUnsigned(tok) == tok \in {"0", "1", "2", "3", "5"}

\* the regular expression (\d{4}-\d{2}-\d{2}) matching a token
IsDateShaped(tok) == tok \in {"2025-04-10", "2025-13-45"}

\* str.startswith(keyword) for the first characters of a token
TokStartsWith(tok, keyword) ==
    \/ tok = keyword
    \/ keyword = "budget" /\ tok = "budgets"
    \/ keyword = "owe" /\ tok = "owed"
    \/ keyword = "bill" /\ tok = "billing"
    \/ keyword = "spent" /\ tok = "spentx"
    \/ keyword = "summary" /\ tok = "summaryx"

---------------------------------------------------------------------------
(* Python dicts *)

EmptyDict == [k \in {} |-> 0]
Has(d, k) == k \in DOMAIN d
Put(d, k, v) == [x \in DOMAIN d \cup {k} |-> IF x = k THEN v ELSE d[x]]
Del(d, k) == [x \in DOMAIN d \ {k} |-> d[x]]

\* the state created by get_user_state for an unseen user
EmptyLedger == [budgets |-> EmptyDict, expenses |-> <<>>, debts_bills |-> <<>>]

---------------------------------------------------------------------------
(* cachetools.TTLCache(maxsize, ttl) as main.py uses it.  The cache is the   *)
(* sequence of its links in the order of TTLCache.__links: least recently    *)
(* used first.  The timer is monotonic, so the links are also in the order   *)
(* of their expiry.                                                          *)

HasKey(c, k) == \E i \in DOMAIN c : c[i].key = k
Link(c, k) == c[CHOOSE i \in DOMAIN c : c[i].key = k]
Without(c, k) == SelectSeq(c, LAMBDA e : e.key # k)

\* TTLCache.__contains__: present and not expired; no reordering
Contains(c, k, time) == HasKey(c, k) /\ time < Link(c, k).expires

\* TTLCache.expire(time): drops every link with not (time < expires)
Expire(c, time) == SelectSeq(c, LAMBDA e : time < e.expires)

\* Cache.__setitem__ for a new key: popitem() while currsize + 1 > maxsize;
\* TTLCache.popitem removes the first key of __links
RECURSIVE Evict(_)
Evict(c) == IF Len(c) + 1 > maxsize THEN Evict(Tail(c)) ELSE c

\* the expiry a link gets when it is written at `time`
ExpiresAt(time) == time + ttl

\* TTLCache.__setitem__: expire, make room for a new key, (re)link the key
\* last with a fresh expiry
SetItem(c, k, v, time) ==
    LET c1 == Expire(c, time)
        c2 == IF HasKey(c1, k) THEN c1 ELSE Evict(c1)
    IN  Append(Without(c2, k), [key |-> k, value |-> v, expires |-> ExpiresAt(time)])

\* mutant of GetItem: a read leaves the key where it is in __links
GetItem_KeepsPlace(c, k) == c

\* mutant of GetItem: a read gives the link a fresh expiry
GetItem_RefreshesExpiry(c, k) ==
    Append(Without(c, k), [Link(c, k) EXCEPT !.expires = ExpiresAt(now)])

\* TTLCache.__getitem__ of an unexpired key: __getlink moves the key to the
\* end of __links and leaves its expiry as it is
GetItem(c, k) == Append(Without(c, k), Link(c, k))

\* main.py:62 get_user_state: the cache after the call and the dict returned
get_user_state(c, user_id, time) ==
    LET c1 == IF ~Contains(c, user_id, time)
              THEN SetItem(c, user_id, EmptyLedger, time)
              ELSE c
    IN  [cache |-> GetItem(c1, user_id), state |-> Link(c1, user_id).value]

\* main.py:71 save_user_state
save_user_state(c, user_id, state, time) == SetItem(c, user_id, state, time)

\* mutant of StoreInPlace: get_user_state gives every user id the same dict
\* object, so that what a handler writes into `state` is seen under every key
StoreInPlace_SharedObject(c, user_id, state) ==
    [i \in DOMAIN c |-> [c[i] EXCEPT !.value = state]]

\* The dict get_user_state returns is the object the cache holds (main.py:69):
\* what the handler writes into `state` is in the cache without any save.
StoreInPlace(c, user_id, state) ==
    [i \in DOMAIN c |-> IF c[i].key = user_id
                        THEN [c[i] EXCEPT !.value = state]
                        ELSE c[i]]

\* the users whose ledger a lookup would find at `time`
Resident(c, time) == {u \in Users : Contains(c, u, time)}

---------------------------------------------------------------------------
(* The branches of expense_budget_monitor (main.py:244-378).  Each takes the *)
(* dict `state` and the lower-cased tokens `parts` and yields                *)
(*   state: the dict as the branch leaves it,                                *)
(*   save:  whether the branch reaches save_user_state,                      *)
(*   resp:  the returned message (its kind and the values it shows).         *)

Result(state, save, resp) == [state |-> state, save |-> save, resp |-> resp]

\* mutant of AssignBudget: the amount is added to the entry instead of replacing it
AssignBudget_Accumulates(budgets, mon, cat, amt) ==
    LET old == IF Has(budgets, mon) THEN budgets[mon] ELSE EmptyDict
    IN  Put(budgets, mon, Put(old, cat, IF Has(old, cat) THEN old[cat] + amt ELSE amt))

\* main.py:256-258: budgets[month] is created when missing, then the
\* category is assigned
AssignBudget(budgets, mon, cat, amt) ==
    Put(budgets, mon, Put(IF Has(budgets, mon) THEN budgets[mon] ELSE EmptyDict, cat, amt))

\* mutant of SetPairs: the dict of the month is created before float() is
\* tried, so that a first amount float() rejects leaves an empty month
RECURSIVE SetPairs_CreatesMonthFirst(_, _, _, _)
SetPairs_CreatesMonthFirst(budgets, mon, cats_amts, i) ==
    IF i > Len(cats_amts)
    THEN [budgets |-> budgets, bad |-> 0]
    ELSE LET created == IF Has(budgets, mon) THEN budgets ELSE Put(budgets, mon, EmptyDict)
         IN  IF ~FloatOk(cats_amts[i + 1])
             THEN [budgets |-> created, bad |-> i + 1]
             ELSE SetPairs_CreatesMonthFirst(
                      AssignBudget(created, mon, Capitalize(cats_amts[i]),
                                   FloatVal(cats_amts[i + 1])),
                      mon, cats_amts, i + 2)

\* main.py:250-258: the loop over the (category, amount) pairs; it returns at
\* the first amount float() rejects, after the pairs before it were assigned
RECURSIVE SetPairs(_, _, _, _)
SetPairs(budgets, mon, cats_amts, i) ==
    IF i > Len(cats_amts)
    THEN [budgets |-> budgets, bad |-> 0]
    ELSE IF ~FloatOk(cats_amts[i + 1])
         THEN [budgets |-> budgets, bad |-> i + 1]
         ELSE SetPairs(AssignBudget(budgets, mon, Capitalize(cats_amts[i]),
                                    FloatVal(cats_amts[i + 1])),
                       mon, cats_amts, i + 2)

\* main.py:244-260
CmdSetBudget(state, parts) ==
    IF Len(parts) < 5 \/ (Len(parts) - 3) % 2 # 0
    THEN Result(state, FALSE, [verb |-> "set budget", kind |-> "format_error"])
    ELSE LET mon == Capitalize(parts[3])
             cats_amts == SubSeq(parts, 4, Len(parts))
             r == SetPairs(state.budgets, mon, cats_amts, 1)
             st == [state EXCEPT !.budgets = r.budgets]
         IN  IF r.bad # 0
             THEN Result(st, FALSE, [verb |-> "set budget", kind |-> "invalid_amount",
                                     text |-> cats_amts[r.bad]])
             ELSE Result(st, TRUE, [verb |-> "set budget", kind |-> "budget_set",
                                    month |-> mon, listing |-> r.budgets[mon]])

\* mutant of CmdEditBudget: the entry is assigned before it is looked up
CmdEditBudget_AssignsFirst(state, parts) ==
    IF Len(parts) # 5
    THEN Result(state, FALSE, [verb |-> "edit budget", kind |-> "format_error"])
    ELSE LET mon == Capitalize(parts[3])
             category == Capitalize(parts[4])
         IN  IF ~FloatOk(parts[5])
             THEN Result(state, FALSE, [verb |-> "edit budget", kind |-> "invalid_amount",
                                        text |-> parts[5]])
             ELSE IF ~Has(state.budgets, mon) \/ ~Has(state.budgets[mon], category)
             THEN Result([state EXCEPT !.budgets =
                             AssignBudget(@, mon, category, FloatVal(parts[5]))], FALSE,
                         [verb |-> "edit budget", kind |-> "not_found",
                          month |-> mon, category |-> category])
             ELSE Result([state EXCEPT !.budgets[mon][category] = FloatVal(parts[5])], TRUE,
                         [verb |-> "edit budget", kind |-> "budget_updated",
                          month |-> mon, category |-> category,
                          amount |-> FloatVal(parts[5])])

\* mutant of CmdEditBudget: float() outside the try of main.py:269-272, so
\* that the ValueError of a text that is no number leaves the handler
CmdEditBudget_Uncaught(state, parts) ==
    IF Len(parts) # 5
    THEN Result(state, FALSE, [verb |-> "edit budget", kind |-> "format_error"])
    ELSE LET mon == Capitalize(parts[3])
             category == Capitalize(parts[4])
         IN  IF ~FloatOk(parts[5])
             THEN Result(state, FALSE, [verb |-> "edit budget", kind |-> "raised",
                                        error |-> "ValueError"])
             ELSE IF ~Has(state.budgets, mon) \/ ~Has(state.budgets[mon], category)
             THEN Result(state, FALSE, [verb |-> "edit budget", kind |-> "not_found",
                                        month |-> mon, category |-> category])
             ELSE Result([state EXCEPT !.budgets[mon][category] = FloatVal(parts[5])], TRUE,
                         [verb |-> "edit budget", kind |-> "budget_updated",
                          month |-> mon, category |-> category,
                          amount |-> FloatVal(parts[5])])

\* mutant of CmdEditBudget: the amount is given to every category of the month
CmdEditBudget_UpdatesWholeMonth(state, parts) ==
    IF Len(parts) # 5
    THEN Result(state, FALSE, [verb |-> "edit budget", kind |-> "format_error"])
    ELSE LET mon == Capitalize(parts[3])
             category == Capitalize(parts[4])
         IN  IF ~FloatOk(parts[5])
             THEN Result(state, FALSE, [verb |-> "edit budget", kind |-> "invalid_amount",
                                        text |-> parts[5]])
             ELSE IF ~Has(state.budgets, mon) \/ ~Has(state.budgets[mon], category)
             THEN Result(state, FALSE, [verb |-> "edit budget", kind |-> "not_found",
                                        month |-> mon, category |-> category])
             ELSE Result([state EXCEPT !.budgets[mon] =
                             [c \in DOMAIN @ |-> FloatVal(parts[5])]], TRUE,
                         [verb |-> "edit budget", kind |-> "budget_updated",
                          month |-> mon, category |-> category,
                          amount |-> FloatVal(parts[5])])

\* main.py:262-277
CmdEditBudget(state, parts) ==
    IF Len(parts) # 5
    THEN Result(state, FALSE, [verb |-> "edit budget", kind |-> "format_error"])
    ELSE LET mon == Capitalize(parts[3])
             category == Capitalize(parts[4])
         IN  IF ~FloatOk(parts[5])
             THEN Result(state, FALSE, [verb |-> "edit budget", kind |-> "invalid_amount",
                                        text |-> parts[5]])
             ELSE IF ~Has(state.budgets, mon) \/ ~Has(state.budgets[mon], category)
             THEN Result(state, FALSE, [verb |-> "edit budget", kind |-> "not_found",
                                        month |-> mon, category |-> category])
             ELSE Result([state EXCEPT !.budgets[mon][category] = FloatVal(parts[5])], TRUE,
                         [verb |-> "edit budget", kind |-> "budget_updated",
                          month |-> mon, category |-> category,
                          amount |-> FloatVal(parts[5])])

\* mutant of RemoveBudget: the emptied month is left behind
RemoveBudget_KeepsEmptyMonth(budgets, mon, category) ==
    Put(budgets, mon, Del(budgets[mon], category))

\* main.py:288-290: del budgets[month][category]; an emptied month is removed
RemoveBudget(budgets, mon, category) ==
    LET rest == Del(budgets[mon], category)
    IN  IF DOMAIN rest = {} THEN Del(budgets, mon) ELSE Put(budgets, mon, rest)

\* mutant of CmdDeleteBudget: the expenses recorded for the deleted
\* (month, category) are removed with the budget
CmdDeleteBudget_DropsExpenses(state, parts) ==
    IF Len(parts) # 4
    THEN Result(state, FALSE, [verb |-> "delete budget", kind |-> "format_error"])
    ELSE LET mon == Capitalize(parts[3])
             category == Capitalize(parts[4])
         IN  IF ~Has(state.budgets, mon) \/ ~Has(state.budgets[mon], category)
             THEN Result(state, FALSE, [verb |-> "delete budget", kind |-> "not_found",
                                        month |-> mon, category |-> category])
             ELSE Result([state EXCEPT
                             !.budgets = RemoveBudget(@, mon, category),
                             !.expenses = SelectSeq(@, LAMBDA x :
                                              ~(x.month = mon /\ x.category = category))],
                         TRUE,
                         [verb |-> "delete budget", kind |-> "budget_deleted",
                          month |-> mon, category |-> category])

\* main.py:279-292
CmdDeleteBudget(state, parts) ==
    IF Len(parts) # 4
    THEN Result(state, FALSE, [verb |-> "delete budget", kind |-> "format_error"])
    ELSE LET mon == Capitalize(parts[3])
             category == Capitalize(parts[4])
         IN  IF ~Has(state.budgets, mon) \/ ~Has(state.budgets[mon], category)
             THEN Result(state, FALSE, [verb |-> "delete budget", kind |-> "not_found",
                                        month |-> mon, category |-> category])
             ELSE Result([state EXCEPT !.budgets = RemoveBudget(@, mon, category)], TRUE,
                         [verb |-> "delete budget", kind |-> "budget_deleted",
                          month |-> mon, category |-> category])

\* mutant of TotalSpent: the expenses of the category in any month are summed
RECURSIVE TotalSpent_AnyMonth(_, _, _)
TotalSpent_AnyMonth(expenses, mon, category) ==
    IF expenses = <<>>
    THEN 0
    ELSE (IF expenses[1].category = category THEN expenses[1].amount ELSE 0)
         + TotalSpent_AnyMonth(Tail(expenses), mon, category)

\* main.py:309: sum(e["amount"] for e in expenses if month and category match)
RECURSIVE TotalSpent(_, _, _)
TotalSpent(expenses, mon, category) ==
    IF expenses = <<>>
    THEN 0
    ELSE (IF expenses[1].month = mon /\ expenses[1].category = category
          THEN expenses[1].amount ELSE 0)
         + TotalSpent(Tail(expenses), mon, category)

\* the text captured by (.+) when it holds several words
JoinWords(words) ==
    CASE words = <<"food", "extra">> -> "food extra"
      [] OTHER -> "other words"

\* main.py:295: re.match(r"spent\s+(\d+\.?\d*)\s+on\s+(.+)")
SpentMatches(parts) ==
    /\ Len(parts) >= 4
    /\ parts[1] = "spent"
    /\ IsUnsigned(parts[2])
    /\ parts[3] = "on"

\* mutant of SpentCategory: the category is kept as the lower-cased command
\* has it, without capitalize()
SpentCategory_KeepsCase(parts) ==
    IF Len(parts) = 4
    THEN parts[4]
    ELSE IF JoinWords(SubSeq(parts, 4, Len(parts))) = "food extra"
         THEN "food extra" ELSE "other words"

\* main.py:299: m.group(2).strip().capitalize()
SpentCategory(parts) ==
    IF Len(parts) = 4
    THEN Capitalize(parts[4])
    ELSE IF JoinWords(SubSeq(parts, 4, Len(parts))) = "food extra"
         THEN "Food extra" ELSE "Other words"

\* main.py:301: the budget entry `spent` requires
HasBudget(budgets, mon, category) == Has(budgets, mon) /\ Has(budgets[mon], category)

\* mutant of CmdSpent: only the month is looked up in the budgets, and a
\* category without an entry counts as a budget of 0
CmdSpent_ChecksMonthOnly(state, parts, mon) ==
    IF ~SpentMatches(parts)
    THEN Result(state, FALSE, [verb |-> "spent", kind |-> "format_error"])
    ELSE LET amount == FloatVal(parts[2])
             category == SpentCategory(parts)
         IN  IF ~Has(state.budgets, mon)
             THEN Result(state, FALSE, [verb |-> "spent", kind |-> "not_found",
                                        month |-> mon, category |-> category])
             ELSE LET st == [state EXCEPT !.expenses =
                                Append(@, [month |-> mon, category |-> category,
                                           amount |-> amount])]
                      total_spent == TotalSpent(st.expenses, mon, category)
                      budget_amt == IF Has(st.budgets[mon], category)
                                    THEN st.budgets[mon][category] ELSE 0
                  IN  Result(st, TRUE,
                             [verb |-> "spent",
                              kind |-> IF total_spent > budget_amt
                                       THEN "exceeded" ELSE "recorded",
                              month |-> mon, category |-> category,
                              amount |-> amount, total |-> total_spent,
                              budget |-> budget_amt])

\* main.py:294-315; `mon` is datetime.utcnow().strftime("%B")
CmdSpent(state, parts, mon) ==
    IF ~SpentMatches(parts)
    THEN Result(state, FALSE, [verb |-> "spent", kind |-> "format_error"])
    ELSE LET amount == FloatVal(parts[2])
             category == SpentCategory(parts)
         IN  IF ~HasBudget(state.budgets, mon, category)
             THEN Result(state, FALSE, [verb |-> "spent", kind |-> "not_found",
                                        month |-> mon, category |-> category])
             ELSE LET st == [state EXCEPT !.expenses =
                                Append(@, [month |-> mon, category |-> category,
                                           amount |-> amount])]
                      total_spent == TotalSpent(st.expenses, mon, category)
                      budget_amt == st.budgets[mon][category]
                  IN  Result(st, TRUE,
                             [verb |-> "spent",
                              kind |-> IF total_spent > budget_amt
                                       THEN "exceeded" ELSE "recorded",
                              month |-> mon, category |-> category,
                              amount |-> amount, total |-> total_spent,
                              budget |-> budget_amt])

\* main.py:318: re.match(r"owe\s+(.+?)\s+(\d+\.?\d*)$"): a description of at
\* least one word, then the amount as the last word
OweMatches(parts) ==
    /\ Len(parts) >= 3
    /\ parts[1] = "owe"
    /\ IsUnsigned(parts[Len(parts)])

\* mutant of CmdOwe: the debt is put in front of the list (newest first)
CmdOwe_NewestFirst(state, parts) ==
    IF ~OweMatches(parts)
    THEN Result(state, FALSE, [verb |-> "owe", kind |-> "format_error"])
    ELSE LET desc == SubSeq(parts, 2, Len(parts) - 1)
             amt == FloatVal(parts[Len(parts)])
         IN  Result([state EXCEPT !.debts_bills =
                        <<[type |-> "debt", description |-> desc, amount |-> amt,
                           due_date |-> "None", is_paid |-> FALSE]>> \o @],
                    TRUE,
                    [verb |-> "owe", kind |-> "debt_recorded",
                     description |-> desc, amount |-> amt])

\* main.py:317-332; the description is kept as its words
CmdOwe(state, parts) ==
    IF ~OweMatches(parts)
    THEN Result(state, FALSE, [verb |-> "owe", kind |-> "format_error"])
    ELSE LET desc == SubSeq(parts, 2, Len(parts) - 1)
             amt == FloatVal(parts[Len(parts)])
         IN  Result([state EXCEPT !.debts_bills =
                        Append(@, [type |-> "debt", description |-> desc, amount |-> amt,
                                   due_date |-> "None", is_paid |-> FALSE])],
                    TRUE,
                    [verb |-> "owe", kind |-> "debt_recorded",
                     description |-> desc, amount |-> amt])

\* main.py:335: re.match(r"bill\s+(.+?)\s+(\d+\.?\d*)\s+due\s+(\d{4}-\d{2}-\d{2})"):
\* the positions where <amount> due <date> can follow a description
BillAmountAt(parts) ==
    {i \in 3..(Len(parts) - 2) :
        IsUnsigned(parts[i]) /\ parts[i + 1] = "due" /\ IsDateShaped(parts[i + 2])}

BillMatches(parts) ==
    /\ Len(parts) >= 5
    /\ parts[1] = "bill"
    /\ BillAmountAt(parts) # {}

\* main.py:334-350; (.+?) is not greedy: the first position that matches
CmdBill(state, parts) ==
    IF ~BillMatches(parts)
    THEN Result(state, FALSE, [verb |-> "bill", kind |-> "format_error"])
    ELSE LET i == CHOOSE j \in BillAmountAt(parts) : \A k \in BillAmountAt(parts) : j <= k
             desc == SubSeq(parts, 2, i - 1)
             amt == FloatVal(parts[i])
             due_date == parts[i + 2]
         IN  Result([state EXCEPT !.debts_bills =
                        Append(@, [type |-> "bill", description |-> desc, amount |-> amt,
                                   due_date |-> due_date, is_paid |-> FALSE])],
                    TRUE,
                    [verb |-> "bill", kind |-> "bill_recorded",
                     description |-> desc, amount |-> amt, due_date |-> due_date])

\* mutant of Percent: a budget of 0 is reported as used up
Percent_ZeroBudgetIsFull(spent, amt) ==
    IF amt = 0 THEN 100
    ELSE IF amt > 0 THEN (200 * spent + amt) \div (2 * amt)
    ELSE 0 - ((200 * spent - amt) \div (2 * (0 - amt)))

\* main.py:368 and the ({pct:.0f}%) of main.py:369: spent / amt * 100 rounded
\* to a whole number, and 0 for a budget of 0
Percent(spent, amt) ==
    IF amt = 0 THEN 0
    ELSE IF amt > 0 THEN (200 * spent + amt) \div (2 * amt)
    ELSE 0 - ((200 * spent - amt) \div (2 * (0 - amt)))

\* main.py:370: [d for d in state["debts_bills"] if d.get("due_date")]
Upcoming(debts_bills) == SelectSeq(debts_bills, LAMBDA d : d.due_date # "None")

\* mutant of CmdSummary: the budgets of the month are read with setdefault,
\* which creates the month that is asked for
CmdSummary_CreatesMonth(state, parts, mon) ==
    LET m == IF Len(parts) >= 2 THEN Capitalize(parts[2]) ELSE mon
        budgets == IF Has(state.budgets, m) THEN state.budgets[m] ELSE EmptyDict
    IN  Result([state EXCEPT !.budgets = Put(@, m, budgets)], TRUE,
               [verb |-> "summary", kind |-> "summary", month |-> m,
                no_budgets |-> (DOMAIN budgets = {}),
                lines |-> [cat \in DOMAIN budgets |->
                              [spent |-> TotalSpent(state.expenses, m, cat),
                               budget |-> budgets[cat],
                               pct |-> Percent(TotalSpent(state.expenses, m, cat),
                                               budgets[cat])]],
                upcoming |-> Upcoming(state.debts_bills)])

\* main.py:352-376; the budget lines are given per category
CmdSummary(state, parts, mon) ==
    LET m == IF Len(parts) >= 2 THEN Capitalize(parts[2]) ELSE mon
        budgets == IF Has(state.budgets, m) THEN state.budgets[m] ELSE EmptyDict
    IN  Result(state, TRUE,
               [verb |-> "summary", kind |-> "summary", month |-> m,
                no_budgets |-> (DOMAIN budgets = {}),
                lines |-> [cat \in DOMAIN budgets |->
                              [spent |-> TotalSpent(state.expenses, m, cat),
                               budget |-> budgets[cat],
                               pct |-> Percent(TotalSpent(state.expenses, m, cat),
                                               budgets[cat])]],
                upcoming |-> Upcoming(state.debts_bills)])

\* main.py:378
CmdUnknown(state, parts) ==
    Result(state, FALSE, [verb |-> "unknown", kind |-> "unknown_command"])

\* The chain of command_lower.startswith(...) tests (main.py:244, 262, 279,
\* 294, 317, 334, 352): the first that matches wins
Verb(parts) ==
    IF Len(parts) >= 2 /\ parts[1] = "set" /\ TokStartsWith(parts[2], "budget")
    THEN "set budget"
    ELSE IF Len(parts) >= 2 /\ parts[1] = "edit" /\ TokStartsWith(parts[2], "budget")
    THEN "edit budget"
    ELSE IF Len(parts) >= 2 /\ parts[1] = "delete" /\ TokStartsWith(parts[2], "budget")
    THEN "delete budget"
    ELSE IF Len(parts) >= 1 /\ TokStartsWith(parts[1], "spent") THEN "spent"
    ELSE IF Len(parts) >= 1 /\ TokStartsWith(parts[1], "owe") THEN "owe"
    ELSE IF Len(parts) >= 1 /\ TokStartsWith(parts[1], "bill") THEN "bill"
    ELSE IF Len(parts) >= 1 /\ TokStartsWith(parts[1], "summary") THEN "summary"
    ELSE "unknown"

---------------------------------------------------------------------------
(* The handler expense_budget_monitor as a process per task *)

NoResponse == [verb |-> "none", kind |-> "none"]
NoLast == [user |-> "none", at |-> 0, month |-> "none", resp |-> NoResponse]

\* no tool other than expense_budget_monitor has been called
NoCall == [name |-> "none"]

Init ==
    /\ expense_cache = <<>>
    /\ locked = FALSE
    /\ now = 0
    /\ month = "March"
    /\ pc = [t \in Tasks |-> "idle"]
    /\ user = [t \in Tasks |-> "u1"]
    /\ last = NoLast
    /\ before = EmptyLedger
    /\ recency = <<>>
    /\ tool = NoCall

\* main.py:226-239: the tool is called for user_id; the handler reaches
\* `async with CACHE_LOCK`.  (The command text is first used inside the lock
\* and is drawn there.)
Call(t, user_id) ==
    /\ pc[t] = "idle"
    /\ pc' = [pc EXCEPT ![t] = "waiting"]
    /\ user' = [user EXCEPT ![t] = user_id]
    /\ last' = NoLast
    /\ before' = EmptyLedger
    /\ UNCHANGED <<expense_cache, locked, now, month, recency, tool>>

\* mutant of Acquire: the handler enters without looking at the lock
Acquire_IgnoresLock(t) ==
    /\ pc[t] = "waiting"
    /\ locked' = TRUE
    /\ pc' = [pc EXCEPT ![t] = "critical"]
    /\ UNCHANGED <<expense_cache, now, month, user, last, before, recency, tool>>

\* main.py:241: asyncio.Lock.acquire, granted only while the lock is free
Acquire(t) ==
    /\ pc[t] = "waiting"
    /\ ~locked
    /\ locked' = TRUE
    /\ pc' = [pc EXCEPT ![t] = "critical"]
    /\ UNCHANGED <<expense_cache, now, month, user, last, before, recency, tool>>

\* main.py:242: state = get_user_state(user_id)
Got(t) == get_user_state(expense_cache, user[t], now)

\* mutant of Complete: the lock is released by hand after save_user_state,
\* so that the early returns of the rejections keep it
Complete_KeepsLockOnEarlyReturn(t, r) ==
    /\ Len(r.state.expenses) <= MaxExpenses
    /\ Len(r.state.debts_bills) <= MaxDebts
    /\ expense_cache' =
          LET c == StoreInPlace(Got(t).cache, user[t], r.state)
          IN  IF r.save THEN save_user_state(c, user[t], r.state, now) ELSE c
    /\ locked' = ~r.save
    /\ pc' = [pc EXCEPT ![t] = "idle"]
    /\ last' = [user |-> user[t], at |-> now, month |-> month, resp |-> r.resp]
    /\ before' = Got(t).state
    /\ recency' = Append(SelectSeq(recency, LAMBDA u : u # user[t]), user[t])
    /\ UNCHANGED <<now, month, user, tool>>

\* The rest of the body once a branch has run: what the branch wrote into
\* `state` is in the cache, save_user_state is called when the branch reaches
\* it, the message is returned and `async with` releases the lock.
Complete(t, r) ==
    /\ Len(r.state.expenses) <= MaxExpenses
    /\ Len(r.state.debts_bills) <= MaxDebts
    /\ expense_cache' =
          LET c == StoreInPlace(Got(t).cache, user[t], r.state)
          IN  IF r.save THEN save_user_state(c, user[t], r.state, now) ELSE c
    /\ locked' = FALSE
    /\ pc' = [pc EXCEPT ![t] = "idle"]
    /\ last' = [user |-> user[t], at |-> now, month |-> month, resp |-> r.resp]
    /\ before' = Got(t).state
    /\ recency' = Append(SelectSeq(recency, LAMBDA u : u # user[t]), user[t])
    /\ UNCHANGED <<now, month, user, tool>>

Enters(t, command, verb) ==
    /\ pc[t] = "critical"
    /\ Verb(LowerAll(command)) = verb

SetBudget(t, command) ==
    /\ Enters(t, command, "set budget")
    /\ Complete(t, CmdSetBudget(Got(t).state, LowerAll(command)))

EditBudget(t, command) ==
    /\ Enters(t, command, "edit budget")
    /\ Complete(t, CmdEditBudget(Got(t).state, LowerAll(command)))

DeleteBudget(t, command) ==
    /\ Enters(t, command, "delete budget")
    /\ Complete(t, CmdDeleteBudget(Got(t).state, LowerAll(command)))

Spent(t, command) ==
    /\ Enters(t, command, "spent")
    /\ Complete(t, CmdSpent(Got(t).state, LowerAll(command), month))

Owe(t, command) ==
    /\ Enters(t, command, "owe")
    /\ Complete(t, CmdOwe(Got(t).state, LowerAll(command)))

Bill(t, command) ==
    /\ Enters(t, command, "bill")
    /\ Complete(t, CmdBill(Got(t).state, LowerAll(command)))

Summary(t, command) ==
    /\ Enters(t, command, "summary")
    /\ Complete(t, CmdSummary(Got(t).state, LowerAll(command), month))

Unknown(t, command) ==
    /\ Enters(t, command, "unknown")
    /\ Complete(t, CmdUnknown(Got(t).state, LowerAll(command)))

\* a day passes on the cache timer; the body of `async with` never suspends,
\* so no day passes while a handler is inside it
Tick ==
    /\ now < MaxClock
    /\ ~locked
    /\ now' = now + 1
    /\ UNCHANGED <<expense_cache, locked, month, pc, user, last, before, recency, tool>>

\* the calendar month of datetime.utcnow() changes (the model follows the
\* calendar from March into April)
NextMonth ==
    /\ month = "March"
    /\ month' = "April"
    /\ UNCHANGED <<expense_cache, locked, now, pc, user, last, before, recency, tool>>

---------------------------------------------------------------------------
(* Command texts the specifications draw from *)

SetBudgetCommands ==
    {<<"SET", "budget", m, c, a>> :
        m \in {"March", "april"}, c \in {"FOOD", "travel"}, a \in {"1", "2", "abc"}}
    \cup {<<"set", "budgets", "March", c1, a1, c2, a2>> :
        c1 \in {"FOOD", "travel"}, a1 \in {"1", "abc"},
        c2 \in {"FOOD", "travel"}, a2 \in {"2", "abc"}}
    \cup {<<"set", "budget", "March", "FOOD">>,
          <<"set", "budget", "March", "FOOD", "1", "travel">>}

EditBudgetCommands ==
    {<<"edit", "budget", m, c, a>> :
        m \in {"March", "april"}, c \in {"FOOD", "travel"}, a \in {"2", "abc"}}
    \cup {<<"edit", "budget", "March", "FOOD">>}

DeleteBudgetCommands ==
    {<<"delete", "budget", m, c>> : m \in {"March", "april"}, c \in {"FOOD", "travel"}}
    \cup {<<"delete", "budget", "March">>}

OweCommands ==
    {<<"owe", "Raj", "5">>, <<"owe", "Raj">>, <<"owe", "Raj", "abc">>,
     <<"owe", "5">>, <<"owed", "Raj", "5">>}

BillCommands ==
    {<<"bill", "Electricity", "3", "due", "2025-04-10">>,
     <<"bill", "Electricity", "3", "due">>,
     <<"bill", "Electricity", "abc", "due", "2025-04-10">>,
     <<"bill", "Electricity", "3", "2025-04-10">>,
     <<"billing", "Electricity", "3", "due", "2025-04-10">>}

SummaryCommands == {<<"summary">>, <<"summary", "april">>}

UnknownCommands == {<<"hello">>, <<>>, <<"set">>, <<"budget", "set">>}

LedgerSpentCommands == {<<"spent", "1", "on", "FOOD">>}

---------------------------------------------------------------------------
(* SpecLedger: one user and one handler at a time; the budget, debt, bill   *)
(* and summary commands on the ledger, and one expense text.                *)

NextLedger ==
    \/ Call("t1", "u1")
    \/ Acquire("t1")
    \/ \E command \in SetBudgetCommands : SetBudget("t1", command)
    \/ \E command \in EditBudgetCommands : EditBudget("t1", command)
    \/ \E command \in DeleteBudgetCommands : DeleteBudget("t1", command)
    \/ \E command \in LedgerSpentCommands : Spent("t1", command)
    \/ \E command \in OweCommands : Owe("t1", command)
    \/ \E command \in BillCommands : Bill("t1", command)
    \/ \E command \in SummaryCommands : Summary("t1", command)
    \/ \E command \in UnknownCommands : Unknown("t1", command)

SpecLedger == Init /\ [][NextLedger]_vars

\* the ledger of the user of the last command, as the cache holds it
After == Link(expense_cache, last.user).value


Rejections == {"format_error", "invalid_amount", "not_found", "unknown_command"}

\* C1: a rejected `set budget` (bad token count or an amount that is no
\* number) leaves the user's budgets as they were before the command,
\* including the pairs that precede the bad amount.
C1_RejectedSetBudgetChangesNothing ==
    (last.resp.verb = "set budget" /\ last.resp.kind \in Rejections)
        => After.budgets = before.budgets

\* C5: the summary lists every record of debts_bills, the debts recorded by
\* `owe` as well as the bills recorded by `bill`.
C5_SummaryListsDebtsAndBills ==
    last.resp.kind = "summary"
        => \A i \in DOMAIN After.debts_bills :
              \E j \in DOMAIN last.resp.upcoming :
                  last.resp.upcoming[j] = After.debts_bills[i]

\* C8: an accepted `delete budget <month> <category>` removes exactly that
\* entry: the month key goes when it was the month's last category and stays
\* otherwise, and every other (month, category) keeps its amount.
C8_DeleteRemovesExactlyTheEntry ==
    last.resp.kind = "budget_deleted"
        => LET m == last.resp.month
               c == last.resp.category
               old == before.budgets
               new == After.budgets
           IN  /\ HasBudget(old, m, c)
               /\ ~HasBudget(new, m, c)
               /\ (DOMAIN old[m] = {c}) => ~Has(new, m)
               /\ (DOMAIN old[m] # {c}) =>
                      (Has(new, m) /\ DOMAIN new[m] = DOMAIN old[m] \ {c})
               /\ DOMAIN new \cup {m} = DOMAIN old
               /\ \A m2 \in DOMAIN new : \A c2 \in DOMAIN old[m2] :
                      (m2 # m \/ c2 # c) => (Has(new[m2], c2) /\ new[m2][c2] = old[m2][c2])
               /\ \A m2 \in DOMAIN new : DOMAIN new[m2] \subseteq DOMAIN old[m2]

\* C8 witness: the last category of a month was deleted while another month
\* has budgets
C8_Witness ==
    /\ last.resp.kind = "budget_deleted"
    /\ DOMAIN before.budgets[last.resp.month] = {last.resp.category}
    /\ DOMAIN After.budgets # {}

\* C9: from every reachable ledger, a valid `set budget` command run a second
\* time leaves the ledger the first run left, each (month, category) holding
\* the one amount of the command.
C9_SetBudgetIdempotent ==
    \A i \in DOMAIN expense_cache : \A command \in SetBudgetCommands :
        LET parts == LowerAll(command)
            once == CmdSetBudget(expense_cache[i].value, parts)
            twice == CmdSetBudget(once.state, parts)
        IN  once.resp.kind = "budget_set"
                => (twice.resp.kind = "budget_set" /\ twice.state = once.state)

\* C9 witness: an accepted `set budget` ran on a ledger that already held
\* what it sets
C9_Witness ==
    /\ last.resp.kind = "budget_set"
    /\ After = before
    /\ Cardinality(DOMAIN After.budgets[last.resp.month]) = 2

\* C10: a rejected `edit budget`, `delete budget`, `owe`, `bill` or
\* unrecognised command leaves budgets, expenses and debts_bills of the user
\* as they were before the command.
C10_RejectedCommandChangesNothing ==
    (/\ last.resp.verb \in {"edit budget", "delete budget", "owe", "bill", "unknown"}
     /\ last.resp.kind \in Rejections)
        => After = before

\* C10 witness: `edit budget` found no entry in a ledger that holds budgets,
\* expenses and debts
C10_Witness ==
    /\ last.resp.verb = "edit budget"
    /\ last.resp.kind = "not_found"
    /\ DOMAIN before.budgets # {}
    /\ before.expenses # <<>>
    /\ before.debts_bills # <<>>


---------------------------------------------------------------------------
(* SpecSpend: one user and one handler at a time; budgets are set and       *)
(* deleted, expenses are logged, and the calendar month changes.            *)

SpendBudgetCommands ==
    {<<"set", "budget", m, c, "2">> : m \in {"March", "april"}, c \in {"FOOD", "travel"}}

SpentCommands ==
    {<<"Spent", a, "on", c>> : a \in {"1", "2"}, c \in {"FOOD", "travel"}}
    \cup {<<"spent", "abc", "on", "food">>, <<"spent", "-1", "on", "food">>,
          <<"spent", "1", "food">>, <<"spentx", "1", "on", "food">>,
          <<"spent", "1", "on", "food", "extra">>}

NextSpend ==
    \/ Call("t1", "u1")
    \/ Acquire("t1")
    \/ \E command \in SpendBudgetCommands : SetBudget("t1", command)
    \/ \E command \in DeleteBudgetCommands : DeleteBudget("t1", command)
    \/ \E command \in SpentCommands : Spent("t1", command)
    \/ NextMonth

SpecSpend == Init /\ [][NextSpend]_vars

Accepted == {"recorded", "exceeded"}

\* C2: `spent <amount> on C` appends an expense only when
\* budgets[current month][C] exists at the time of the command, whatever
\* other categories of the month are budgeted or have expenses; otherwise it
\* is rejected and the expenses stay as they were.
C2_SpentNeedsBudgetOfCategory ==
    last.resp.verb = "spent"
        => /\ last.resp.kind \in Accepted \cup {"not_found", "format_error"}
           /\ last.resp.kind \notin Accepted => After.expenses = before.expenses
           /\ last.resp.kind = "not_found" => last.resp.month = last.month
           /\ last.resp.kind \in Accepted =>
                 /\ last.resp.month = last.month
                 /\ Has(before.budgets, last.month)
                 /\ Has(before.budgets[last.month], last.resp.category)

\* C2 witness: `spent` on a category without budget was rejected although
\* another category of the current month has a budget and a logged expense
C2_Witness ==
    /\ last.resp.verb = "spent"
    /\ last.resp.kind = "not_found"
    /\ Has(before.budgets, last.month)
    /\ \E i \in DOMAIN before.expenses :
          /\ before.expenses[i].month = last.month
          /\ before.expenses[i].category # last.resp.category

\* the sum of the amounts of the expenses at the positions `idx`
RECURSIVE SumAt(_, _)
SumAt(expenses, idx) ==
    IF idx = {} THEN 0
    ELSE LET i == CHOOSE j \in idx : TRUE
         IN  expenses[i].amount + SumAt(expenses, idx \ {i})

Bucket(expenses, mon, category) ==
    {i \in DOMAIN expenses : expenses[i].month = mon /\ expenses[i].category = category}

\* C3: every accepted `spent` appends its expense (over budget or not), the
\* total it reports is the sum of the amounts logged for its
\* (month, category), and it warns exactly when that sum is greater than the
\* budgeted amount.
C3_SpentTotalAndWarning ==
    (last.resp.verb = "spent" /\ last.resp.kind \in Accepted)
        => LET m == last.month
               c == last.resp.category
           IN  /\ After.expenses =
                     Append(before.expenses,
                            [month |-> m, category |-> c, amount |-> last.resp.amount])
               /\ last.resp.total = SumAt(After.expenses, Bucket(After.expenses, m, c))
               /\ last.resp.total =
                     SumAt(before.expenses, Bucket(before.expenses, m, c)) + last.resp.amount
               /\ (last.resp.kind = "exceeded") <=> (last.resp.total > before.budgets[m][c])

\* C3 witness: the third expense of a (month, category) takes the sum over
\* the budget, while another expense is logged elsewhere
C3_Witness ==
    /\ last.resp.verb = "spent"
    /\ last.resp.kind = "exceeded"
    /\ Cardinality(Bucket(After.expenses, last.month, last.resp.category)) = 2
    /\ Len(After.expenses) = 3
    /\ last.resp.total = 3


---------------------------------------------------------------------------
(* SpecStore: one handler at a time, three users on a cache of maxsize 2,   *)
(* and the cache timer; accepted, read-only and rejected commands.          *)

StoreCommands == {<<"set", "budget", "March", "FOOD", "1">>, <<"set", "budget", "March">>}

NextStore ==
    \/ \E u \in Users : Call("t1", u)
    \/ Acquire("t1")
    \/ \E command \in StoreCommands : SetBudget("t1", command)
    \/ Summary("t1", <<"summary">>)
    \/ Unknown("t1", <<"hello">>)
    \/ Tick

SpecStore == Init /\ [][NextStore]_vars

\* the handler of task t completes in this step
Completes(t) == pc[t] = "critical" /\ pc'[t] = "idle"

\* the resident user whose latest command lies furthest back
LeastRecent(c, time) ==
    recency[CHOOSE i \in DOMAIN recency :
                /\ recency[i] \in Resident(c, time)
                /\ \A j \in DOMAIN recency : recency[j] \in Resident(c, time) => i <= j]

\* C6: when maxsize users are resident and a command runs for a user that is
\* not, the ledger of the least recently accessed resident user is discarded,
\* every other resident ledger is kept as it is, and a command for a user
\* that is not resident starts from the empty ledger.
C6_EvictsLeastRecentlyAccessed ==
    [][\A t \in Tasks :
          (Completes(t) /\ user[t] \notin Resident(expense_cache, now)) =>
              /\ before' = EmptyLedger
              /\ Cardinality(Resident(expense_cache, now)) = maxsize =>
                    LET old == Resident(expense_cache, now)
                        lru == LeastRecent(expense_cache, now)
                    IN  /\ ~HasKey(expense_cache', lru)
                        /\ Resident(expense_cache', now) = (old \ {lru}) \cup {user[t]}
                        /\ \A u \in old \ {lru} :
                              Link(expense_cache', u) = Link(expense_cache, u)]_vars

Range(seq) == {seq[i] : i \in DOMAIN seq}

\* C6 witness: with no time passed, a user who ran a command is no longer in
\* the full cache, and both ledgers in the cache hold budgets
C6_Witness ==
    /\ now = 0
    /\ Len(expense_cache) = maxsize
    /\ \E u \in Range(recency) : ~HasKey(expense_cache, u)
    /\ \A i \in DOMAIN expense_cache : expense_cache[i].value # EmptyLedger

---------------------------------------------------------------------------
(* SpecConcurrent: two handlers called concurrently, for the same user or   *)
(* for different users.                                                     *)

ConcurrentBudgetCommands == {<<"set", "budget", "March", "food", "1">>}
ConcurrentSpentCommands == {<<"spent", "1", "on", "food">>, <<"spent", "2", "on", "food">>}

NextConcurrent ==
    \/ \E t \in Tasks : \E u \in {"u1", "u2"} : Call(t, u)
    \/ \E t \in Tasks : Acquire(t)
    \/ \E t \in Tasks : \E command \in ConcurrentBudgetCommands : SetBudget(t, command)
    \/ \E t \in Tasks : \E command \in ConcurrentSpentCommands : Spent(t, command)

SpecConcurrent == Init /\ [][NextConcurrent]_vars

\* at most one handler is inside `async with CACHE_LOCK`, and then the lock is held
OneInside ==
    /\ Cardinality({t \in Tasks : pc[t] = "critical"}) <= 1
    /\ locked <=> (\E t \in Tasks : pc[t] = "critical")

\* C4: at most one handler is inside the read-modify-write section at any
\* time, and every accepted `spent` adds its expense to the expenses the
\* cache held for the user when the handler completed: none is lost in any
\* interleaving.
C4_ExclusiveSectionNoLostUpdate ==
    /\ []OneInside
    /\ [][\A t \in Tasks :
             (Completes(t) /\ last'.resp.verb = "spent" /\ last'.resp.kind \in Accepted) =>
                 /\ HasKey(expense_cache, user[t])
                 /\ Link(expense_cache', user[t]).value.expenses =
                       Append(Link(expense_cache, user[t]).value.expenses,
                              [month |-> month, category |-> last'.resp.category,
                               amount |-> last'.resp.amount])]_vars

\* C4 witness: a handler is inside the section while the other one waits
\* with a command for the same user, whose ledger already holds two expenses
C4_Witness ==
    /\ pc["t1"] = "critical"
    /\ pc["t2"] = "waiting"
    /\ user["t1"] = user["t2"]
    /\ HasKey(expense_cache, user["t1"])
    /\ Len(Link(expense_cache, user["t1"]).value.expenses) = 2

---------------------------------------------------------------------------
(* Commands at the edge of the grammar, all for the current month:         *)
(* negative and zero amounts, a date that has the shape of a date and is   *)
(* none, and the malformed forms of every command (main.py:226-378).       *)

InputBudgetCommands ==
    {<<"set", "budget", "march", c, a>> :
        c \in {"food", "travel"}, a \in {"0", "2", "-1", "abc"}}
InputEditCommands ==
    {<<"edit", "budget", "march", "food", a>> : a \in {"0", "-1", "abc"}}
InputDeleteCommands ==
    {<<"delete", "budget", "march", "food">>, <<"delete", "budget">>}
InputSpentCommands ==
    {<<"spent", a, "on", "food">> : a \in {"1", "-1"}}
InputOweCommands == {<<"owe", "raj", a>> : a \in {"5", "-1"}}
InputBillCommands ==
    {<<"bill", "electricity", "3", "due", d>> :
        d \in {"2025-04-10", "2025-13-45", "soon"}}
    \cup {<<"bill", "electricity", "3">>}

NextInputs ==
    \/ Call("t1", "u1")
    \/ Acquire("t1")
    \/ \E command \in InputBudgetCommands : SetBudget("t1", command)
    \/ \E command \in InputEditCommands : EditBudget("t1", command)
    \/ \E command \in InputDeleteCommands : DeleteBudget("t1", command)
    \/ \E command \in InputSpentCommands : Spent("t1", command)
    \/ \E command \in InputOweCommands : Owe("t1", command)
    \/ \E command \in InputBillCommands : Bill("t1", command)
    \/ \E command \in SummaryCommands : Summary("t1", command)
    \/ \E command \in UnknownCommands : Unknown("t1", command)

SpecInputs == Init /\ [][NextInputs]_vars

\* every ledger the cache holds
Ledgers == {expense_cache[i].value : i \in DOMAIN expense_cache}

\* C11: every budget amount, every expense amount and every debt or bill
\* amount of every ledger is non-negative (set budget and edit budget refuse
\* a negative amount before they change anything).
C11_AmountsAreNonNegative ==
    \A state \in Ledgers :
        /\ \A m \in DOMAIN state.budgets :
              \A c \in DOMAIN state.budgets[m] : state.budgets[m][c] >= 0
        /\ \A i \in DOMAIN state.expenses : state.expenses[i].amount >= 0
        /\ \A i \in DOMAIN state.debts_bills : state.debts_bills[i].amount >= 0

\* a date of the calendar, among the texts that have the shape of a date
IsCalendarDate(tok) == tok \in {"2025-04-10"}

\* C12: every bill of every ledger carries a due date that is a date of the
\* calendar written YYYY-MM-DD, and every debt carries none (a bill with a
\* missing date or with month 13 or day 45 is refused and appends nothing).
C12_BillsCarryCalendarDates ==
    \A state \in Ledgers :
        \A i \in DOMAIN state.debts_bills :
            LET d == state.debts_bills[i]
            IN  /\ d.type = "bill" => IsCalendarDate(d.due_date)
                /\ d.type = "debt" => d.due_date = "None"

\* the response strings expense_budget_monitor returns, by their kind
Messages ==
    {"format_error", "invalid_amount", "not_found", "unknown_command",
     "budget_set", "budget_updated", "budget_deleted", "recorded", "exceeded",
     "debt_recorded", "bill_recorded", "summary"}

C15_SummaryIsReadOnly ==
    last.resp.verb = "summary" =>
        /\ last.resp.kind = "summary"
        /\ After = before
        /\ last.resp.no_budgets <=>
              (~Has(before.budgets, last.resp.month)
               \/ DOMAIN before.budgets[last.resp.month] = {})

\* C15 witness: a summary of a month without budgets, of a ledger that holds
\* budgets, expenses and a debt
C15_Witness ==
    /\ last.resp.kind = "summary"
    /\ last.resp.no_budgets
    /\ before.budgets # EmptyDict
    /\ before.expenses # <<>>
    /\ before.debts_bills # <<>>

Abs(x) == IF x < 0 THEN 0 - x ELSE x

\* C16: the summary has one line per budgeted category of its month, with
\* the sum of the expenses logged for the (month, category), the budgeted
\* amount, and the percentage spend / budget * 100 rounded to a whole
\* number; for a budget of 0 the percentage is 0.
C16_SummaryLinesAndPercent ==
    (last.resp.kind = "summary" /\ ~last.resp.no_budgets) =>
        LET m == last.resp.month
            lines == last.resp.lines
        IN  /\ DOMAIN lines = DOMAIN before.budgets[m]
            /\ \A cat \in DOMAIN lines :
                  LET l == lines[cat]
                  IN  /\ l.budget = before.budgets[m][cat]
                      /\ l.spent = SumAt(before.expenses, Bucket(before.expenses, m, cat))
                      /\ l.budget = 0 => l.pct = 0
                      /\ l.budget # 0 =>
                            2 * Abs(100 * l.spent - l.pct * l.budget) <= Abs(l.budget)

\* C16 witness: the summary has a line for a category with a budget of 0 and
\* expenses, and a line for a category with a budget above 0
C16_Witness ==
    /\ last.resp.kind = "summary"
    /\ ~last.resp.no_budgets
    /\ \E cat \in DOMAIN last.resp.lines :
          last.resp.lines[cat].budget = 0 /\ last.resp.lines[cat].spent > 0
    /\ \E cat \in DOMAIN last.resp.lines : last.resp.lines[cat].budget > 0

---------------------------------------------------------------------------
(* C17, checked under SpecLedger *)

IsPrefix(s, t) == Len(s) <= Len(t) /\ SubSeq(t, 1, Len(s)) = s

\* C17: the expenses and the debts and bills of a ledger are append-only:
\* after any command, the expenses the command found are a prefix of the
\* expenses of the ledger, and so are the debts and bills.
C17_ExpensesAndDebtsAreAppendOnly ==
    last.user # "none" =>
        /\ IsPrefix(before.expenses, After.expenses)
        /\ IsPrefix(before.debts_bills, After.debts_bills)

\* C17 witness: a debt was recorded in a ledger that held a bill and an
\* expense
C17_Witness ==
    /\ last.resp.kind = "debt_recorded"
    /\ before.expenses # <<>>
    /\ Len(before.debts_bills) = 1
    /\ before.debts_bills[1].type = "bill"
    /\ Len(After.debts_bills) = 2

---------------------------------------------------------------------------
(* Commands that write budgets under one casing of a name and read them    *)
(* under another (main.py:238-239, 250-251, 266-267, 283-284, 299, 354)    *)

CaseSetCommands ==
    {<<"set", "budget", m, c, "2">> :
        m \in {"march", "MARCH", "april"}, c \in {"food", "Food", "travel"}}
CaseEditCommands ==
    {<<"edit", "budget", "March", "FOOD", "3">>,
     <<"edit", "budget", "APRIL", "Travel", "3">>}
CaseDeleteCommands ==
    {<<"delete", "budget", "March", "FOOD">>,
     <<"delete", "budget", "APRIL", "Travel">>}
CaseSpentCommands ==
    {<<"Spent", "1", "on", "FOOD">>, <<"spent", "1", "on", "Travel">>}
CaseSummaryCommands == {<<"summary", "March">>, <<"summary", "APRIL">>}

NextCase ==
    \/ Call("t1", "u1")
    \/ Acquire("t1")
    \/ \E command \in CaseSetCommands : SetBudget("t1", command)
    \/ \E command \in CaseEditCommands : EditBudget("t1", command)
    \/ \E command \in CaseDeleteCommands : DeleteBudget("t1", command)
    \/ \E command \in CaseSpentCommands : Spent("t1", command)
    \/ \E command \in CaseSummaryCommands : Summary("t1", command)

SpecCase == Init /\ [][NextCase]_vars

\* the spellings of one name, which differ in the case of their letters only
Spellings ==
    {{"march", "March", "MARCH"}, {"april", "April", "APRIL"},
     {"food", "Food", "FOOD"}, {"travel", "Travel", "TRAVEL"}}
SameName(a, b) == a = b \/ \E n \in Spellings : a \in n /\ b \in n

\* the ledger holds a budget entry whose month and category are spellings of
\* the given names
HoldsEntryNamed(budgets, mon, category) ==
    \E m \in DOMAIN budgets :
        \E c \in DOMAIN budgets[m] : SameName(m, mon) /\ SameName(c, category)

\* C18: month and category names that differ in letter case only are one
\* bucket on every path: a ledger never holds two spellings of a month or
\* of a category, edit budget, delete budget and spent find the entry that
\* was written under another spelling, and so does summary for the month.
C18_NamesAreCaseInsensitive ==
    /\ \A state \in Ledgers :
          /\ \A m1, m2 \in DOMAIN state.budgets : SameName(m1, m2) => m1 = m2
          /\ \A m \in DOMAIN state.budgets :
                \A c1, c2 \in DOMAIN state.budgets[m] : SameName(c1, c2) => c1 = c2
    /\ last.resp.kind = "not_found" =>
          ~HoldsEntryNamed(before.budgets, last.resp.month, last.resp.category)
    /\ (last.resp.kind = "summary" /\ last.resp.no_budgets) =>
          \A m \in DOMAIN before.budgets : ~SameName(m, last.resp.month)
    /\ last.resp.kind \in {"recorded", "exceeded"} =>
          \A i \in DOMAIN After.expenses :
              \A m \in DOMAIN After.budgets : \A c \in DOMAIN After.budgets[m] :
                  (SameName(After.expenses[i].month, m)
                      /\ SameName(After.expenses[i].category, c)) =>
                  (After.expenses[i].month = m /\ After.expenses[i].category = c)

\* C18 witness: `Spent 1 on FOOD` was recorded against the budget that
\* `set budget` wrote as march food or MARCH Food, in a ledger whose budgets
\* of April were written as well
C18_Witness ==
    /\ last.resp.verb = "spent"
    /\ last.resp.kind \in {"recorded", "exceeded"}
    /\ last.resp.category = "Food"
    /\ Has(before.budgets, "April")

---------------------------------------------------------------------------
(* Two handlers under fair scheduling.  asyncio.Lock wakes its waiters in   *)
(* the order of their arrival, so a handler that waits at main.py:241 while *)
(* the lock is released again and again acquires it (strong fairness); the  *)
(* body of main.py:242-378 has no await and runs to its return once the     *)
(* lock is held (weak fairness).  Nothing obliges a client to call.         *)

FairBudgetCommands ==
    {<<"set", "budget", "March", "FOOD", "2">>, <<"set", "budget", "March">>}
FairEditCommands == {<<"edit", "budget", "March", "travel", "3">>}
FairSpentCommands == {<<"spent", "1", "on", "FOOD">>}
FairUnknownCommands == {<<"hello">>}

\* the body of the handler, from the lock to its return
Handles(t) ==
    \/ \E command \in FairBudgetCommands : SetBudget(t, command)
    \/ \E command \in FairEditCommands : EditBudget(t, command)
    \/ \E command \in FairSpentCommands : Spent(t, command)
    \/ \E command \in FairUnknownCommands : Unknown(t, command)

NextFair ==
    \E t \in Tasks :
        \/ Call(t, "u1")
        \/ Acquire(t)
        \/ Handles(t)

SpecFair ==
    /\ Init
    /\ [][NextFair]_vars
    /\ \A t \in Tasks : SF_vars(Acquire(t)) /\ WF_vars(Handles(t))

\* C19: under fair scheduling every command completes: a handler that waits
\* for the section eventually has returned its response with the lock
\* released, whichever return path the body takes (accepted, format error,
\* not found, unknown command).
C19_EveryCommandCompletes ==
    \A t \in Tasks : (pc[t] = "waiting") ~> (pc[t] = "idle" /\ ~locked)

\* C19 witness: a handler waits for the section while the other one is
\* inside it, for a ledger that holds a budget and an expense
C19_Witness ==
    /\ pc["t1"] = "waiting"
    /\ pc["t2"] = "critical"
    /\ locked
    /\ HasKey(expense_cache, "u1")
    /\ Link(expense_cache, "u1").value.budgets # EmptyDict
    /\ Link(expense_cache, "u1").value.expenses # <<>>

---------------------------------------------------------------------------
(* The purchasing-power lookup (main.py:74-102, 386-417; utils.py:20-36)    *)

MaxWords == 3       \* longest query explored, in tokens

\* purchasing_power_data / _PPP: the "cities" of purchasingpower.json, a
\* table of distinct rows; a sample with a name that contains another one
purchasing_power_data ==
    <<[city |-> "Mumbai", local_purchasing_power_index |-> 3],
      [city |-> "Navi Mumbai", local_purchasing_power_index |-> 2],
      [city |-> "Delhi", local_purchasing_power_index |-> 3],
      [city |-> "Pune", local_purchasing_power_index |-> 1]>>

QueryTokens == {"Mumbai", "navi", "Delhi", "pune", "a", "vs", "50k"}

\* re.findall(r"[a-zA-Z]+", token) of a lower-cased token
AlphaWords(tok) == IF tok = "50k" THEN <<"k">> ELSE <<tok>>

\* re.findall(r"[a-zA-Z]+", query.lower())
RECURSIVE QueryWords(_)
QueryWords(query) ==
    IF query = <<>> THEN <<>>
    ELSE AlphaWords(Lower(Head(query))) \o QueryWords(Tail(query))

\* Python's `w in name` for a word and a lower-cased city name
IsSubstring(w, name) ==
    <<w, name>> \in {<<"mumbai", "mumbai">>, <<"mumbai", "navi mumbai">>,
                     <<"navi", "navi mumbai">>, <<"delhi", "delhi">>,
                     <<"pune", "pune">>,
                     <<"a", "mumbai">>, <<"a", "navi mumbai">>}

\* Python's `city in matched_cities` (equality of the rows)
InList(city, cities) == \E i \in DOMAIN cities : cities[i] = city

\* mutant of extract_cities_from_query: main.py:98 without
\* `city not in matched_cities`
RECURSIVE ExtractFrom_NoMembershipTest(_, _, _, _)
ExtractFrom_NoMembershipTest(words, matched_cities, ci, wi) ==
    IF ci > Len(purchasing_power_data) THEN matched_cities
    ELSE IF wi > Len(words) THEN ExtractFrom_NoMembershipTest(words, matched_cities, ci + 1, 1)
    ELSE LET city == purchasing_power_data[ci]
         IN  IF IsSubstring(words[wi], Lower(city.city))
             THEN LET appended == Append(matched_cities, city)
                  IN  IF Len(appended) = 2 THEN appended
                      ELSE ExtractFrom_NoMembershipTest(words, appended, ci, wi + 1)
             ELSE ExtractFrom_NoMembershipTest(words, matched_cities, ci, wi + 1)

extract_cities_from_query_NoMembershipTest(query) ==
    ExtractFrom_NoMembershipTest(QueryWords(query), <<>>, 1, 1)

\* main.py:95-102: the loops over the cities (ci) and the words (wi); the
\* word loop goes on after a match, and the function returns at two cities
RECURSIVE ExtractFrom(_, _, _, _)
ExtractFrom(words, matched_cities, ci, wi) ==
    IF ci > Len(purchasing_power_data) THEN matched_cities
    ELSE IF wi > Len(words) THEN ExtractFrom(words, matched_cities, ci + 1, 1)
    ELSE LET city == purchasing_power_data[ci]
         IN  IF IsSubstring(words[wi], Lower(city.city)) /\ ~InList(city, matched_cities)
             THEN LET appended == Append(matched_cities, city)
                  IN  IF Len(appended) = 2 THEN appended
                      ELSE ExtractFrom(words, appended, ci, wi + 1)
             ELSE ExtractFrom(words, matched_cities, ci, wi + 1)

\* main.py:91-102
extract_cities_from_query(query) == ExtractFrom(QueryWords(query), <<>>, 1, 1)

\* utils.py:27-35: the word loop breaks at the first match, the city loop
\* breaks once len(matches) >= max_results
RECURSIVE FindFrom(_, _, _, _, _)
FindFrom(words, matches, ci, wi, max_results) ==
    IF ci > Len(purchasing_power_data) THEN matches
    ELSE LET c == purchasing_power_data[ci]
             found == wi <= Len(words) /\ IsSubstring(words[wi], Lower(c.city))
                         /\ ~InList(c, matches)
             after == IF found THEN Append(matches, c) ELSE matches
         IN  IF wi <= Len(words) /\ ~found
             THEN FindFrom(words, matches, ci, wi + 1, max_results)
             ELSE IF Len(after) >= max_results THEN after
             ELSE FindFrom(words, after, ci + 1, 1, max_results)

\* utils.py:24-36
find_cities_in_ppp(query, max_results) ==
    FindFrom(QueryWords(query), <<>>, 1, 1, max_results)

\* main.py:386-417: the answer of the tool, by its kind
purchasing_power_checker(query) ==
    LET cities == extract_cities_from_query(query)
    IN  IF cities = <<>>
        THEN [outcome |-> "raised", error |-> "McpError", kind |-> "no_city"]
        ELSE IF Len(cities) = 1
        THEN [outcome |-> "returned", kind |-> "index"]
        ELSE LET ppi1 == cities[1].local_purchasing_power_index
                 ppi2 == cities[2].local_purchasing_power_index
             IN  [outcome |-> "returned",
                  kind |-> IF ppi1 = ppi2 THEN "same"
                           ELSE IF ppi1 > ppi2 THEN "stronger" ELSE "weaker"]

Queries == UNION {[1..n -> QueryTokens] : n \in 0..MaxWords}

\* purchasing_power_checker answers the call it has received
PurchasingPower(query) ==
    /\ tool = [name |-> "purchasing_power_checker", answered |-> FALSE, query |-> query]
    /\ tool' = [name |-> "purchasing_power_checker", answered |-> TRUE, query |-> query,
                cities |-> extract_cities_from_query(query),
                in_ppp |-> find_cities_in_ppp(query, 2),
                result |-> purchasing_power_checker(query)]
    /\ UNCHANGED <<expense_cache, locked, now, month, pc, user, last, before, recency>>

---------------------------------------------------------------------------
(* The news and the gold price tools (main.py:172-217, 438-455;             *)
(* utils.py:38-83).  What the network and the LLM do is an input.           *)

MaxNews == 2        \* most entries of a feed explored

\* the entries of a feed: with or without a summary
FeedEntries == {"with_summary", "title_only"}
Feeds == UNION {[1..n -> FeedEntries] : n \in 0..MaxNews}

\* utils.py:72-83: feedparser.parse, then feed.entries[:limit].  A transport
\* failure either leaves feedparser as an exception or is kept by it in the
\* feed it returns, which then has no entries.
fetch_financial_news(net, feed, limit) ==
    IF net = "raises" THEN [raised |-> TRUE, items |-> <<>>]
    ELSE IF net = "swallowed" THEN [raised |-> FALSE, items |-> <<>>]
    ELSE [raised |-> FALSE,
          items |-> SubSeq(feed, 1, IF limit < Len(feed) THEN limit ELSE Len(feed))]

\* main.py:179-217; llm_fails is the set of items for which call_puch_llm raises
fetch_and_simplify_financial_news(net, feed, limit, llm_fails) ==
    LET fetched == fetch_financial_news(net, feed, limit)
    IN  IF fetched.raised
        THEN [outcome |-> "raised", error |-> "McpError",
              kind |-> "failed_to_fetch_financial_news"]
        ELSE IF fetched.items = <<>>
        THEN [outcome |-> "returned", kind |-> "warning_no_items"]
        ELSE [outcome |-> "returned", kind |-> "digest",
              entries |-> [i \in DOMAIN fetched.items |->
                              IF i \in llm_fails
                              THEN IF fetched.items[i] = "with_summary"
                                   THEN "raw_summary" ELSE "raw_title"
                              ELSE "simplified"]]

\* mutant of gold_price_command: fetch_gold_price outside the try of
\* main.py:447-455
gold_price_command_Uncaught(command, net) ==
    LET command_lower == LowerAll(command)
        city == IF Len(command_lower) >= 4 /\ SubSeq(command_lower, 1, 3) = <<"gold", "price", "in">>
                THEN Capitalize(command_lower[4]) ELSE "None"
    IN  IF net = "raises"
        THEN [outcome |-> "raised", error |-> "HTTPError", city |-> city]
        ELSE [outcome |-> "returned", kind |-> net, city |-> city]

\* main.py:438-455 with utils.py:38-70: the city of `gold price in <city>`,
\* and the prices, the raw text, or the warning for a fetch that raised
gold_price_command(command, net) ==
    LET command_lower == LowerAll(command)
        city == IF Len(command_lower) >= 4 /\ SubSeq(command_lower, 1, 3) = <<"gold", "price", "in">>
                THEN Capitalize(command_lower[4]) ELSE "None"
    IN  IF net = "raises"
        THEN [outcome |-> "returned", kind |-> "warning_failed_to_fetch_gold_price",
              city |-> city]
        ELSE [outcome |-> "returned", kind |-> net, city |-> city]

GoldCommands ==
    {<<"gold", "price", "today">>, <<"gold", "price", "in", "Mumbai">>,
     <<"Gold", "price", "in", "Delhi">>}

\* fetch_and_simplify_financial_news answers the call it has received
FetchNews(net, feed, limit, llm_fails) ==
    /\ tool = [name |-> "fetch_and_simplify_financial_news", answered |-> FALSE,
               limit |-> limit]
    /\ tool' = [name |-> "fetch_and_simplify_financial_news", answered |-> TRUE,
                transport_failed |-> (net # "ok"), fetch_raised |-> (net = "raises"),
                result |-> fetch_and_simplify_financial_news(net, feed, limit, llm_fails)]
    /\ UNCHANGED <<expense_cache, locked, now, month, pc, user, last, before, recency>>

\* gold_price_command answers the call it has received
GoldPrice(command, net) ==
    /\ tool = [name |-> "gold_price_command", answered |-> FALSE, command |-> command]
    /\ tool' = [name |-> "gold_price_command", answered |-> TRUE,
                transport_failed |-> (net = "raises"), fetch_raised |-> (net = "raises"),
                result |-> gold_price_command(command, net)]
    /\ UNCHANGED <<expense_cache, locked, now, month, pc, user, last, before, recency>>

NextTools ==
    \/ \E query \in Queries : PurchasingPower(query)
    \/ \E net \in {"ok", "swallowed", "raises"}, feed \in Feeds,
          limit \in 0..MaxNews, llm_fails \in SUBSET (1..MaxNews) :
          FetchNews(net, feed, limit, llm_fails)
    \/ \E command \in GoldCommands, net \in {"prices", "raw", "raises"} :
          GoldPrice(command, net)

\* the calls a client can make, with their arguments
ToolCalls ==
    {[name |-> "purchasing_power_checker", answered |-> FALSE, query |-> query] :
        query \in Queries}
    \cup {[name |-> "fetch_and_simplify_financial_news", answered |-> FALSE,
           limit |-> limit] : limit \in 0..MaxNews}
    \cup {[name |-> "gold_price_command", answered |-> FALSE, command |-> command] :
           command \in GoldCommands}

\* one call of a tool has arrived; the tools keep no state between calls
InitTools ==
    /\ expense_cache = <<>>
    /\ locked = FALSE
    /\ now = 0
    /\ month = "March"
    /\ pc = [t \in Tasks |-> "idle"]
    /\ user = [t \in Tasks |-> "u1"]
    /\ last = NoLast
    /\ before = EmptyLedger
    /\ recency = <<>>
    /\ tool \in ToolCalls

SpecTools == InitTools /\ [][NextTools]_vars

Warnings == {"warning_no_items", "warning_failed_to_fetch_gold_price"}

\* C14 as the specification states it: a transport failure of the news fetch
\* or of the gold price fetch is answered by the tool with a warning string
\* it returns, and is never propagated to the caller as an error.
C14_FetchFailureIsReturnedAsWarning ==
    (tool.name \in {"fetch_and_simplify_financial_news", "gold_price_command"}
        /\ tool.answered /\ tool.transport_failed) =>
        (tool.result.outcome = "returned" /\ tool.result.kind \in Warnings)

\* C14, amended: gold_price_command answers a fetch that raised with the
\* warning string it returns; fetch_and_simplify_financial_news answers a
\* fetch that raised by raising McpError ("Failed to fetch financial news")
\* to its caller, and a fetch without items with the warning string it
\* returns.
C14_GoldWarnsNewsRaisesMcpError ==
    /\ (tool.name = "gold_price_command" /\ tool.answered /\ tool.fetch_raised) =>
          (tool.result.outcome = "returned"
              /\ tool.result.kind = "warning_failed_to_fetch_gold_price")
    /\ (tool.name = "fetch_and_simplify_financial_news"
           /\ tool.answered /\ tool.fetch_raised) =>
          (tool.result.outcome = "raised" /\ tool.result.error = "McpError")
    /\ (tool.name = "fetch_and_simplify_financial_news"
           /\ tool.answered /\ tool.transport_failed /\ ~tool.fetch_raised) =>
          (tool.result.outcome = "returned" /\ tool.result.kind = "warning_no_items")

\* C14 witness: the news fetch raised
C14_Witness ==
    /\ tool.name = "fetch_and_simplify_financial_news"
    /\ tool.answered
    /\ tool.fetch_raised
    /\ tool.result.outcome = "raised"

\* the rows of the table that a word of the query is a substring of, in
\* the order of the table
Matching(query) ==
    SelectSeq(purchasing_power_data,
              LAMBDA c : \E i \in DOMAIN QueryWords(query) :
                            IsSubstring(QueryWords(query)[i], Lower(c.city)))

FirstTwo(seq) == SubSeq(seq, 1, IF Len(seq) < 2 THEN Len(seq) ELSE 2)

\* C20: the purchasing-power lookup returns at most two cities, all
\* distinct, in the order of the table: they are the first two rows (or the
\* only one, or none) whose lower-cased city name has an alphabetic word of
\* the lower-cased query as a substring; find_cities_in_ppp of utils.py
\* returns the same.
C20_LookupReturnsFirstTwoMatches ==
    (tool.name = "purchasing_power_checker" /\ tool.answered) =>
        /\ Len(tool.cities) <= 2
        /\ \A i, j \in DOMAIN tool.cities : i # j => tool.cities[i] # tool.cities[j]
        /\ tool.cities = FirstTwo(Matching(tool.query))
        /\ tool.in_ppp = tool.cities

\* C20 witness: two words of the query match the first row, which is
\* returned once, followed by the second matching row
C20_Witness ==
    /\ tool.name = "purchasing_power_checker"
    /\ tool.answered
    /\ tool.query = <<"Mumbai", "a", "pune">>
    /\ Len(tool.cities) = 2
    /\ tool.cities[1].city = "Mumbai"

---------------------------------------------------------------------------
(* C21, C23 and C24, checked under SpecLedger *)

\* C21: an accepted command changes its own part of the ledger only: set
\* budget, edit budget and delete budget leave the expenses and the debts
\* and bills as they were, spent leaves the budgets and the debts and bills,
\* owe and bill leave the budgets and the expenses; and edit budget gives
\* the named (month, category) its amount and leaves every other entry.
C21_AcceptedCommandKeepsOtherParts ==
    /\ last.resp.kind \in {"budget_set", "budget_updated", "budget_deleted"} =>
          /\ After.expenses = before.expenses
          /\ After.debts_bills = before.debts_bills
    /\ last.resp.kind \in {"recorded", "exceeded"} =>
          /\ After.budgets = before.budgets
          /\ After.debts_bills = before.debts_bills
    /\ last.resp.kind \in {"debt_recorded", "bill_recorded"} =>
          /\ After.budgets = before.budgets
          /\ After.expenses = before.expenses
    /\ last.resp.kind = "budget_updated" =>
          /\ DOMAIN After.budgets = DOMAIN before.budgets
          /\ \A m \in DOMAIN before.budgets :
                /\ DOMAIN After.budgets[m] = DOMAIN before.budgets[m]
                /\ \A c \in DOMAIN before.budgets[m] :
                      After.budgets[m][c] =
                          IF m = last.resp.month /\ c = last.resp.category
                          THEN last.resp.amount
                          ELSE before.budgets[m][c]

\* C21 witness: edit budget changed one of the two entries of a month to
\* another amount, in a ledger with budgets of two months, an expense and a
\* debt
C21_Witness ==
    /\ last.resp.kind = "budget_updated"
    /\ Cardinality(DOMAIN before.budgets) = 2
    /\ Cardinality(DOMAIN before.budgets[last.resp.month]) = 2
    /\ before.budgets[last.resp.month][last.resp.category] # last.resp.amount
    /\ before.expenses # <<>>
    /\ before.debts_bills # <<>>

---------------------------------------------------------------------------
(* C22, checked under SpecStore *)

\* C22: users are isolated: a command for one user leaves the ledger of
\* every other user as it is, or that ledger is discarded as a whole by the
\* cache (capacity or expiry); it never creates, and never writes into, the
\* ledger of another user, as it would if two user ids had one dict object.
C22_UsersAreIsolated ==
    [][\A t \in Tasks :
          Completes(t) =>
              \A u \in Users \ {user[t]} :
                  /\ HasKey(expense_cache', u) => HasKey(expense_cache, u)
                  /\ (HasKey(expense_cache, u) /\ HasKey(expense_cache', u)) =>
                        Link(expense_cache', u).value = Link(expense_cache, u).value]_vars

\* C22 witness: a set budget for u2 was accepted while the cache holds the
\* ledger of u1, which has no budgets
C22_Witness ==
    /\ last.user = "u2"
    /\ last.resp.kind = "budget_set"
    /\ HasKey(expense_cache, "u1")
    /\ Link(expense_cache, "u1").value = EmptyLedger
    /\ Link(expense_cache, "u2").value # EmptyLedger

\* C23: in every ledger, every month that is a key of budgets has at least
\* one category: no set budget, edit budget or delete budget, accepted or
\* rejected, leaves a month without categories.
C23_NoMonthWithoutCategories ==
    \A state \in Ledgers :
        \A m \in DOMAIN state.budgets : DOMAIN state.budgets[m] # {}

\* C23 witness: a set budget was rejected for its first amount on a ledger
\* whose budgets had all been deleted after an expense was recorded, and
\* the ledger has no month
C23_Witness ==
    /\ last.resp.verb = "set budget"
    /\ last.resp.kind = "invalid_amount"
    /\ before.expenses # <<>>
    /\ After.budgets = EmptyDict

\* the month and category texts of the commands of C24
TypedMonths == {"march", "april"}
TypedCategories == {"food", "travel"}

\* C24: delete budget keeps the expenses recorded for the deleted
\* (month, category).  For every ledger and every budget entry it holds:
\* after `delete budget` the expenses are the same and a summary of the
\* month has no line for the category; after `set budget` for the entry
\* again, `spent 1` on the category reports the sum of the expenses recorded
\* before the deletion plus 1.  And every completed delete budget left the
\* expenses it found, and every summary has lines for budgeted categories
\* only.
C24_DeleteBudgetKeepsExpenses ==
    /\ last.resp.kind = "budget_deleted" => After.expenses = before.expenses
    /\ last.resp.kind = "summary" =>
          \A cat \in DOMAIN last.resp.lines :
              /\ Has(before.budgets, last.resp.month)
              /\ Has(before.budgets[last.resp.month], cat)
    /\ \A state \in Ledgers : \A m \in TypedMonths : \A c \in TypedCategories :
          LET mon == Capitalize(m)
              category == Capitalize(c)
          IN  (Has(state.budgets, mon) /\ Has(state.budgets[mon], category)) =>
                 LET deleted == CmdDeleteBudget(state, <<"delete", "budget", m, c>>)
                     shown == CmdSummary(deleted.state, <<"summary", m>>, mon)
                     again == CmdSetBudget(deleted.state, <<"set", "budget", m, c, "2">>)
                     next == CmdSpent(again.state, <<"spent", "1", "on", c>>, mon)
                 IN  /\ deleted.resp.kind = "budget_deleted"
                     /\ deleted.state.expenses = state.expenses
                     /\ category \notin DOMAIN shown.resp.lines
                     /\ again.resp.kind = "budget_set"
                     /\ next.resp.kind \in {"recorded", "exceeded"}
                     /\ next.resp.total =
                           SumAt(state.expenses, Bucket(state.expenses, mon, category)) + 1

\* C24 witness: a summary of a month ran on a ledger that holds two expenses
\* of a category of that month whose budget has been deleted, and has no
\* line for the category
C24_Witness ==
    /\ last.resp.kind = "summary"
    /\ Len(before.expenses) >= 2
    /\ \A i \in DOMAIN before.expenses :
          /\ before.expenses[i].month = last.resp.month
          /\ before.expenses[i].category \notin DOMAIN last.resp.lines

=============================================================================
